---- MODULE Spec2Model ----
(***************************************************************************)
(* Model of the WallhavenAPI client (src/wallhavenapi/wallhavenapi.py):    *)
(* the two transport loops _request and _raw_request, and the resource     *)
(* operations built on them.  A behaviour is one client making one call;  *)
(* each HTTP attempt and each sleep is one step, and the remote server's   *)
(* answer to an attempt is chosen nondeterministically.                    *)
(*                                                                         *)
(* Python's Optional values are encoded as sequences: None is <<>> and a   *)
(* present value x is <<x>>.  Dictionaries are functions on their keys.    *)
(***************************************************************************)
EXTENDS Integers, Sequences, FiniteSets, TLC

VARIABLES self, pc, op, kwargs, attempt, log, tres, rres, result, fs

vars == <<self, pc, op, kwargs, attempt, log, tres, rres, result, fs>>

\* ---------- bounds ----------

\* Largest retry budget (requestslimit_timeout[0]) a client is built with.
MaxAttempts == 3

\* Longest chunk stream an asset download delivers.
MaxChunks == 2

\* Longest list of categories or purities passed to search.
MaxList == 2

\* Longest base endpoint, in tokens, and most path segments, that _format_url is called on.
MaxBase == 3

MaxSegs == 2

\* ---------- Optional values ----------

None == <<>>

Some(x) == <<x>>

Get(o) == o[1]

\* ---------- exceptions ----------

RequestsLimitError(status_code) == [type |-> "RequestsLimitError", status_code |-> Some(status_code), message |-> "You have exceeded the requests limit. Please try later."]

ApiKeyError(message, status_code) == [type |-> "ApiKeyError", status_code |-> Some(status_code), message |-> IF message # None /\ Get(message) # "" THEN Get(message) ELSE "Bad API key. Check it please."]

NoWallpaperError(wallpaper_id) == [type |-> "NoWallpaperError", status_code |-> Some(404), message |-> "No wallpaper with id", wallpaper_id |-> wallpaper_id]

UnhandledException(message, status_code) == [type |-> "UnhandledException", status_code |-> status_code, message |-> message]

\* Outcome of a call: a returned value or a raised exception.
Return(v) == [kind |-> "return", value |-> v]

Raise(e) == [kind |-> "raise", exc |-> e]

IsRaise(r, t) == r.kind = "raise" /\ r.exc.type = t

\* ---------- client configuration (WallhavenAPI.__init__) ----------

ApiKeys == {None, Some(""), Some("KEY")}

Delays == {7}

\* Retry budgets a caller can pass: any integer pair, zero and negative
\* attempt counts included.
RetryPolicies == {None} \cup {Some(<<m, d>>) : m \in -1..MaxAttempts, d \in Delays}

BaseUrls == {<<"b", "/">>}

Configs == [api_key : ApiKeys, verify_connection : {TRUE}, base_url : BaseUrls, timeout : {<<2, 5>>}, requestslimit_timeout : RetryPolicies, proxies : {<<>>}]

\* Python truthiness of an Optional[str].
Truthy(o) == o # None /\ Get(o) # ""

\* Variant of max_retries: two attempts when no policy is set.
max_retries_default2(cfg) == IF cfg.requestslimit_timeout # None THEN Get(cfg.requestslimit_timeout)[1] ELSE 2

\* Line 248.
max_retries(cfg) == IF cfg.requestslimit_timeout # None THEN Get(cfg.requestslimit_timeout)[1] ELSE 1

\* Line 249.
delay(cfg) == IF cfg.requestslimit_timeout # None THEN Get(cfg.requestslimit_timeout)[2] ELSE 0

\* ---------- URL builder ----------

\* A URL is a sequence of tokens; "/" is a token of its own.
\* Variant of rstrip: at most one trailing slash is taken off.
rstrip_once(s) == IF s # <<>> /\ s[Len(s)] = "/" THEN SubSeq(s, 1, Len(s) - 1) ELSE s

RECURSIVE rstrip(_)
rstrip(s) == IF s # <<>> /\ s[Len(s)] = "/" THEN rstrip(SubSeq(s, 1, Len(s) - 1)) ELSE s

\* A path component is <<"str", s>> or <<"int", n>>.
str(a) == IF a[1] = "int" THEN ToString(a[2]) ELSE a[2]

RECURSIVE join(_)
join(args) == IF args = <<>> THEN <<>> ELSE IF Len(args) = 1 THEN <<str(args[1])>> ELSE <<str(args[1]), "/">> \o join(Tail(args))

_format_url(cfg, args) == (rstrip(cfg.base_url) \o <<"/">>) \o join(args)

S(s) == <<"str", s>>

I(n) == <<"int", n>>

\* ---------- the remote side ----------

WallpaperIds == {"abc123", "zzz999"}

AssetUrls == {<<"img1">>, <<"img2">>}

\* Parsed reply bodies: the metadata envelope with the asset URL.
Bodies == {[data |-> [path |-> u]] : u \in AssetUrls}

Statuses == {200, 401, 403, 404, 429, 500}

\* A transport-level failure (requests.RequestException).
TransportFailure == [kind |-> "exc"]

\* What one call of requests.request can produce: an exception or a
\* response; json is None when the body does not parse.
RequestOutcomes == {TransportFailure} \cup {[kind |-> "resp", status_code |-> s, json |-> j] : s \in Statuses \ {200}, j \in {None}} \cup {[kind |-> "resp", status_code |-> 200, json |-> j] : j \in {None} \cup {Some(b) : b \in Bodies}}

Chunks == {<<>>, <<1>>, <<2>>}

RECURSIVE SeqsUpTo(_, _)
SeqsUpTo(X, n) == IF n = 0 THEN {<<>>} ELSE LET P == SeqsUpTo(X, n - 1) IN P \cup {Append(p, x) : p \in {q \in P : Len(q) = n - 1}, x \in X}

ChunkStreams == SeqsUpTo(Chunks, MaxChunks)

\* What one call of requests.get(url, stream=True) can produce.
RawOutcomes == {TransportFailure} \cup {[kind |-> "resp", status_code |-> s, chunks |-> <<>>] : s \in Statuses \ {200}} \cup {[kind |-> "resp", status_code |-> 200, chunks |-> c] : c \in ChunkStreams}

\* ---------- transport core ----------

Put(d, k, v) == [x \in DOMAIN d \cup {k} |-> IF x = k THEN v ELSE d[x]]

setdefault(d, k, v) == IF k \in DOMAIN d THEN d ELSE Put(d, k, v)

\* Variant of prepare: the credential replaces the caller's params.
prepare_replace(kw, cfg) == LET k1 == IF Truthy(cfg.api_key) THEN Put(kw, "params", Put(<<>>, "apikey", Get(cfg.api_key))) ELSE kw IN setdefault(setdefault(setdefault(k1, "timeout", cfg.timeout), "verify", cfg.verify_connection), "proxies", cfg.proxies)

\* The keyword arguments of requests.request after lines 252-259.
prepare(kw, cfg) == LET k1 == IF Truthy(cfg.api_key) THEN Put(kw, "params", Put(setdefault(kw, "params", <<>>).params, "apikey", Get(cfg.api_key))) ELSE kw IN setdefault(setdefault(setdefault(k1, "timeout", cfg.timeout), "verify", cfg.verify_connection), "proxies", cfg.proxies)

Sleep == [kind |-> "sleep"]

\* Variants of _request_attempt with one decision changed: the last-attempt
\* test on 429 off by one; 401 retried like 429; a 5xx status retried.
_request_attempt_late(att, maxr, to_json, o) ==
  IF o.kind = "exc"
  THEN (IF att = maxr - 1 THEN Raise(UnhandledException("Request failed", None)) ELSE Sleep)
  ELSE IF o.status_code = 429
  THEN (IF att = maxr THEN Raise(RequestsLimitError(o.status_code)) ELSE Sleep)
  ELSE IF o.status_code = 401
  THEN Raise(ApiKeyError(None, o.status_code))
  ELSE IF o.status_code = 404
  THEN Raise(UnhandledException("404 Not Found for URL", Some(o.status_code)))
  ELSE IF o.status_code # 200
  THEN Raise(UnhandledException("Unexpected status code", Some(o.status_code)))
  ELSE IF to_json
  THEN (IF o.json # None THEN Return(Get(o.json)) ELSE Raise(UnhandledException("JSON decode error", Some(o.status_code))))
  ELSE Return(o)

_request_attempt_retry401(att, maxr, to_json, o) ==
  IF o.kind = "exc"
  THEN (IF att = maxr - 1 THEN Raise(UnhandledException("Request failed", None)) ELSE Sleep)
  ELSE IF o.status_code = 429
  THEN (IF att = maxr - 1 THEN Raise(RequestsLimitError(o.status_code)) ELSE Sleep)
  ELSE IF o.status_code = 401
  THEN (IF att = maxr - 1 THEN Raise(ApiKeyError(None, o.status_code)) ELSE Sleep)
  ELSE IF o.status_code = 404
  THEN Raise(UnhandledException("404 Not Found for URL", Some(o.status_code)))
  ELSE IF o.status_code # 200
  THEN Raise(UnhandledException("Unexpected status code", Some(o.status_code)))
  ELSE IF to_json
  THEN (IF o.json # None THEN Return(Get(o.json)) ELSE Raise(UnhandledException("JSON decode error", Some(o.status_code))))
  ELSE Return(o)

_request_attempt_retry5xx(att, maxr, to_json, o) ==
  IF o.kind = "exc"
  THEN (IF att = maxr - 1 THEN Raise(UnhandledException("Request failed", None)) ELSE Sleep)
  ELSE IF o.status_code = 429
  THEN (IF att = maxr - 1 THEN Raise(RequestsLimitError(o.status_code)) ELSE Sleep)
  ELSE IF o.status_code = 401
  THEN Raise(ApiKeyError(None, o.status_code))
  ELSE IF o.status_code = 404
  THEN Raise(UnhandledException("404 Not Found for URL", Some(o.status_code)))
  ELSE IF o.status_code # 200
  THEN (IF o.status_code >= 500 /\ att # maxr - 1 THEN Sleep ELSE Raise(UnhandledException("Unexpected status code", Some(o.status_code))))
  ELSE IF to_json
  THEN (IF o.json # None THEN Return(Get(o.json)) ELSE Raise(UnhandledException("JSON decode error", Some(o.status_code))))
  ELSE Return(o)

\* Variant of _request_attempt: the envelope of the parsed body is taken off.
_request_attempt_unwrap(att, maxr, to_json, o) ==
  IF o.kind = "exc"
  THEN (IF att = maxr - 1 THEN Raise(UnhandledException("Request failed", None)) ELSE Sleep)
  ELSE IF o.status_code = 429
  THEN (IF att = maxr - 1 THEN Raise(RequestsLimitError(o.status_code)) ELSE Sleep)
  ELSE IF o.status_code = 401
  THEN Raise(ApiKeyError(None, o.status_code))
  ELSE IF o.status_code = 404
  THEN Raise(UnhandledException("404 Not Found for URL", Some(o.status_code)))
  ELSE IF o.status_code # 200
  THEN Raise(UnhandledException("Unexpected status code", Some(o.status_code)))
  ELSE IF to_json
  THEN (IF o.json # None THEN Return(Get(o.json).data) ELSE Raise(UnhandledException("JSON decode error", Some(o.status_code))))
  ELSE Return(o)

\* Variant of _request_attempt: a body that cannot be parsed is retried like
\* a transport failure.
_request_attempt_decode_retry(att, maxr, to_json, o) ==
  IF o.kind = "exc"
  THEN (IF att = maxr - 1 THEN Raise(UnhandledException("Request failed", None)) ELSE Sleep)
  ELSE IF o.status_code = 429
  THEN (IF att = maxr - 1 THEN Raise(RequestsLimitError(o.status_code)) ELSE Sleep)
  ELSE IF o.status_code = 401
  THEN Raise(ApiKeyError(None, o.status_code))
  ELSE IF o.status_code = 404
  THEN Raise(UnhandledException("404 Not Found for URL", Some(o.status_code)))
  ELSE IF o.status_code # 200
  THEN Raise(UnhandledException("Unexpected status code", Some(o.status_code)))
  ELSE IF to_json
  THEN (IF o.json # None THEN Return(Get(o.json)) ELSE IF att = maxr - 1 THEN Raise(UnhandledException("JSON decode error", Some(o.status_code))) ELSE Sleep)
  ELSE Return(o)

\* One iteration of the loop of _request (lines 262-307), given what
\* requests.request produced: sleep and go round again, raise, or return.
_request_attempt(att, maxr, to_json, o) ==
  IF o.kind = "exc"
  THEN (IF att = maxr - 1 THEN Raise(UnhandledException("Request failed", None)) ELSE Sleep)
  ELSE IF o.status_code = 429
  THEN (IF att = maxr - 1 THEN Raise(RequestsLimitError(o.status_code)) ELSE Sleep)
  ELSE IF o.status_code = 401
  THEN Raise(ApiKeyError(None, o.status_code))
  ELSE IF o.status_code = 404
  THEN Raise(UnhandledException("404 Not Found for URL", Some(o.status_code)))
  ELSE IF o.status_code # 200
  THEN Raise(UnhandledException("Unexpected status code", Some(o.status_code)))
  ELSE IF to_json
  THEN (IF o.json # None THEN Return(Get(o.json)) ELSE Raise(UnhandledException("JSON decode error", Some(o.status_code))))
  ELSE Return(o)

\* Variant of _raw_request_attempt: a transport failure is never retried.
_raw_request_attempt_noretry(att, maxr, o) ==
  IF o.kind = "exc"
  THEN Raise(UnhandledException("Request failed", None))
  ELSE IF o.status_code = 200
  THEN Return(o)
  ELSE IF o.status_code = 429
  THEN (IF att = maxr - 1 THEN Raise(RequestsLimitError(429)) ELSE Sleep)
  ELSE Raise(UnhandledException("Unexpected status code", Some(o.status_code)))

\* Variant of _raw_request_attempt: 401 is answered as _request answers it.
_raw_request_attempt_401(att, maxr, o) ==
  IF o.kind = "exc"
  THEN (IF att = maxr - 1 THEN Raise(UnhandledException("Request failed", None)) ELSE Sleep)
  ELSE IF o.status_code = 200
  THEN Return(o)
  ELSE IF o.status_code = 429
  THEN (IF att = maxr - 1 THEN Raise(RequestsLimitError(429)) ELSE Sleep)
  ELSE IF o.status_code = 401
  THEN Raise(ApiKeyError(None, 401))
  ELSE Raise(UnhandledException("Unexpected status code", Some(o.status_code)))

\* Variant of _raw_request_attempt: on the last attempt the two errors
\* change places.
_raw_request_attempt_swapped(att, maxr, o) ==
  IF o.kind = "exc"
  THEN (IF att = maxr - 1 THEN Raise(RequestsLimitError(429)) ELSE Sleep)
  ELSE IF o.status_code = 200
  THEN Return(o)
  ELSE IF o.status_code = 429
  THEN (IF att = maxr - 1 THEN Raise(UnhandledException("Request failed", None)) ELSE Sleep)
  ELSE Raise(UnhandledException("Unexpected status code", Some(o.status_code)))

\* Variant of _raw_request_attempt: a transport failure always sleeps, on the
\* last attempt too.
_raw_request_attempt_always_sleep(att, maxr, o) ==
  IF o.kind = "exc"
  THEN Sleep
  ELSE IF o.status_code = 200
  THEN Return(o)
  ELSE IF o.status_code = 429
  THEN (IF att = maxr - 1 THEN Raise(RequestsLimitError(429)) ELSE Sleep)
  ELSE Raise(UnhandledException("Unexpected status code", Some(o.status_code)))

\* Variant of _raw_request_attempt: a 429 is never retried.
_raw_request_attempt_limit_terminal(att, maxr, o) ==
  IF o.kind = "exc"
  THEN (IF att = maxr - 1 THEN Raise(UnhandledException("Request failed", None)) ELSE Sleep)
  ELSE IF o.status_code = 200
  THEN Return(o)
  ELSE IF o.status_code = 429
  THEN Raise(RequestsLimitError(429))
  ELSE Raise(UnhandledException("Unexpected status code", Some(o.status_code)))

\* One iteration of the loop of _raw_request (lines 335-359).
_raw_request_attempt(att, maxr, o) ==
  IF o.kind = "exc"
  THEN (IF att = maxr - 1 THEN Raise(UnhandledException("Request failed", None)) ELSE Sleep)
  ELSE IF o.status_code = 200
  THEN Return(o)
  ELSE IF o.status_code = 429
  THEN (IF att = maxr - 1 THEN Raise(RequestsLimitError(429)) ELSE Sleep)
  ELSE Raise(UnhandledException("Unexpected status code", Some(o.status_code)))

\* ---------- resource operations: what they do with the transport result ----------

\* Variant of wallpaper_result: every UnhandledException is translated.
wallpaper_result_any(wallpaper_id, r) == IF IsRaise(r, "UnhandledException") THEN Raise(NoWallpaperError(wallpaper_id)) ELSE r

\* wallpaper (lines 513-519): a 404 UnhandledException becomes NoWallpaperError.
wallpaper_result(wallpaper_id, r) == IF IsRaise(r, "UnhandledException") /\ r.exc.status_code = Some(404) THEN Raise(NoWallpaperError(wallpaper_id)) ELSE r

\* Variant of is_wallpaper_exists_result: every failure is swallowed.
is_wallpaper_exists_result_swallow(r) == IF r.kind = "return" THEN Return(TRUE) ELSE Return(FALSE)

\* is_wallpaper_exists (lines 534-538): True on success, False on NoWallpaperError.
is_wallpaper_exists_result(r) == IF r.kind = "return" THEN Return(TRUE) ELSE IF IsRaise(r, "NoWallpaperError") THEN Return(FALSE) ELSE r

\* ---------- parameter encoder and search ----------

int(b) == IF b THEN 1 ELSE 0

\* Variant of _category: the first two flags change places.
_category_swapped(general, anime, people) == ToString(int(anime)) \o ToString(int(general)) \o ToString(int(people))

\* Line 397.
_category(general, anime, people) == ToString(int(general)) \o ToString(int(anime)) \o ToString(int(people))

_purity(sfw, sketchy, nsfw) == ToString(int(sfw)) \o ToString(int(sketchy)) \o ToString(int(nsfw))

\* A selection is <<"none">>, <<"one", x>> (a bare value) or <<"list", l>>.
NoSel == <<"none">>

One(x) == <<"one", x>>

List(l) == <<"list", l>>

\* Python truthiness of None, an enum member or tuple, and a list.
SelTruthy(x) == x[1] = "one" \/ (x[1] = "list" /\ x[2] # <<>>)

\* x if isinstance(x, list) else [x]
AsList(x) == IF x[1] = "list" THEN x[2] ELSE <<x[2]>>

In(c, l) == \E i \in 1..Len(l) : l[i] = c

RECURSIVE JoinDims(_)
JoinDims(l) == IF l = <<>> THEN "" ELSE IF Len(l) = 1 THEN ToString(l[1][1]) \o "x" \o ToString(l[1][2]) ELSE ToString(l[1][1]) \o "x" \o ToString(l[1][2]) \o "," \o JoinDims(Tail(l))

_format_dimensions(dims) == JoinDims(AsList(dims))

\* TopRange member -> its value.
TopRangeValue(m) == CASE m = "one_day" -> "1d" [] m = "three_days" -> "3d" [] m = "one_week" -> "1w" [] m = "one_month" -> "1M" [] m = "three_months" -> "3M" [] m = "six_months" -> "6M" [] m = "one_year" -> "1y"

PutIf(c, d, k, v) == IF c THEN Put(d, k, v) ELSE d

\* Variant of search_params: without a selection the categories default is sent.
search_params_defaulting(f) == LET p1 == PutIf(Truthy(f.q), <<>>, "q", Get(f.q)) p2 == Put(p1, "categories", IF ~SelTruthy(f.categories) THEN _category(TRUE, TRUE, FALSE) ELSE _category(In("general", AsList(f.categories)), In("anime", AsList(f.categories)), In("people", AsList(f.categories)))) p3 == PutIf(SelTruthy(f.purities), p2, "purity", _purity(In("sfw", AsList(f.purities)), In("sketchy", AsList(f.purities)), In("nsfw", AsList(f.purities)))) p4 == PutIf(f.sorting # None, p3, "sorting", Get(f.sorting)) p5 == PutIf(f.order # None, p4, "order", Get(f.order)) p6 == PutIf(f.top_range # None, p5, "topRange", TopRangeValue(Get(f.top_range))) p7 == PutIf(f.atleast # None, p6, "atleast", ToString(Get(f.atleast)[1]) \o "x" \o ToString(Get(f.atleast)[2])) p8 == PutIf(SelTruthy(f.resolutions), p7, "resolutions", _format_dimensions(f.resolutions)) p9 == PutIf(SelTruthy(f.ratios), p8, "ratios", _format_dimensions(f.ratios)) p10 == PutIf(f.colors # None, p9, "colors", Get(f.colors)) p11 == PutIf(f.page # None /\ Get(f.page) # 0, p10, "page", ToString(Get(f.page))) IN PutIf(Truthy(f.seed), p11, "seed", Get(f.seed))

\* The query parameters search builds from its arguments (lines 469-493).
search_params(f) == LET p1 == PutIf(Truthy(f.q), <<>>, "q", Get(f.q)) p2 == PutIf(SelTruthy(f.categories), p1, "categories", _category(In("general", AsList(f.categories)), In("anime", AsList(f.categories)), In("people", AsList(f.categories)))) p3 == PutIf(SelTruthy(f.purities), p2, "purity", _purity(In("sfw", AsList(f.purities)), In("sketchy", AsList(f.purities)), In("nsfw", AsList(f.purities)))) p4 == PutIf(f.sorting # None, p3, "sorting", Get(f.sorting)) p5 == PutIf(f.order # None, p4, "order", Get(f.order)) p6 == PutIf(f.top_range # None, p5, "topRange", TopRangeValue(Get(f.top_range))) p7 == PutIf(f.atleast # None, p6, "atleast", ToString(Get(f.atleast)[1]) \o "x" \o ToString(Get(f.atleast)[2])) p8 == PutIf(SelTruthy(f.resolutions), p7, "resolutions", _format_dimensions(f.resolutions)) p9 == PutIf(SelTruthy(f.ratios), p8, "ratios", _format_dimensions(f.ratios)) p10 == PutIf(f.colors # None, p9, "colors", Get(f.colors)) p11 == PutIf(f.page # None /\ Get(f.page) # 0, p10, "page", ToString(Get(f.page))) IN PutIf(Truthy(f.seed), p11, "seed", Get(f.seed))

NoFilter == [q |-> None, categories |-> NoSel, purities |-> NoSel, sorting |-> None, order |-> None, top_range |-> None, atleast |-> None, resolutions |-> NoSel, ratios |-> NoSel, colors |-> None, page |-> None, seed |-> None]

\* The searches the client is asked for.
SearchInputs == {NoFilter, [NoFilter EXCEPT !.q = Some("nature"), !.categories = List(<<"general">>), !.purities = List(<<"sfw">>)], [NoFilter EXCEPT !.categories = One("people"), !.purities = List(<<"nsfw", "sfw">>), !.sorting = Some("toplist"), !.order = Some("asc"), !.top_range = Some("one_month"), !.atleast = Some(<<1920, 1080>>), !.resolutions = List(<<<<1, 2>>, <<3, 4>>>>), !.ratios = One(<<16, 9>>), !.colors = Some("660000"), !.page = Some(2), !.seed = Some("aB3dE9")]}

\* ---------- filesystem (download_wallpaper with a destination) ----------

\* A path is a sequence of tokens like a URL; an absolute one starts with "/".
Cwd == <<"/", "cwd">>

abspath(p) == IF p[1] = "/" THEN p ELSE (Cwd \o <<"/">>) \o p

RECURSIVE dirname(_)
dirname(p) == IF p = <<>> THEN <<>> ELSE IF p[Len(p)] = "/" THEN (IF Len(p) = 1 THEN p ELSE SubSeq(p, 1, Len(p) - 1)) ELSE dirname(SubSeq(p, 1, Len(p) - 1))

\* os.makedirs(d, exist_ok=True): d and every missing ancestor.
RECURSIVE makedirs(_, _)
makedirs(dirs, d) == IF d \in dirs \/ d = <<>> THEN dirs ELSE makedirs(dirs \cup {d}, dirname(d))

\* b"".join(chunks)
RECURSIVE JoinBytes(_)
JoinBytes(chunks) == IF chunks = <<>> THEN <<>> ELSE chunks[1] \o JoinBytes(Tail(chunks))

\* Variant of WriteChunks: each chunk is put in front of what was written.
RECURSIVE WriteChunks_prepend(_, _)
WriteChunks_prepend(f, chunks) == IF chunks = <<>> THEN f ELSE WriteChunks_prepend(IF chunks[1] # <<>> THEN chunks[1] \o f ELSE f, Tail(chunks))

\* The loop of lines 564-566 over the stream, f being the file so far.
RECURSIVE WriteChunks(_, _)
WriteChunks(f, chunks) == IF chunks = <<>> THEN f ELSE WriteChunks(IF chunks[1] # <<>> THEN f \o chunks[1] ELSE f, Tail(chunks))

FilePaths == {None, Some(<<>>), Some(<<"out", "/", "w.jpg">>), Some(<<"/", "tmp", "/", "w.jpg">>)}

\* ---------- the client as a state machine ----------

Init == /\ self \in Configs /\ pc = "idle" /\ op = [name |-> "none"] /\ kwargs = <<>> /\ attempt = 0 /\ log = <<>> /\ tres = None /\ rres = None /\ result = None /\ fs = [dirs |-> {<<"/">>, Cwd}, files |-> <<>>]

\* The caller has control and makes its call.  A behaviour follows one call
\* to its end: the client carries nothing from one call to the next but
\* self, which no action changes.
Ready == pc = "idle"

\* Entry of _request(to_json, **kw) on behalf of operation o.
\* op keeps the operation, its arguments and the kwargs it passed.
Enter_request(o, kw) == /\ Ready /\ op' = Put(o, "kwargs", kw) /\ kwargs' = kw /\ attempt' = 0 /\ pc' = "request" /\ log' = <<>> /\ tres' = None /\ rres' = None /\ result' = None /\ UNCHANGED <<self, fs>>

\* An operation that ends before any transport call.
EndLocally(o, r) == /\ Ready /\ op' = o /\ kwargs' = <<>> /\ attempt' = 0 /\ pc' = "done" /\ log' = <<>> /\ tres' = None /\ rres' = None /\ result' = Some(r) /\ UNCHANGED <<self, fs>>

Get_(url) == [method |-> "get", url |-> url]

search == \E f \in SearchInputs : Enter_request([name |-> "search", to_json |-> TRUE], Put(Get_(_format_url(self, <<S("search")>>)), "params", search_params(f)))

wallpaper == \E id \in WallpaperIds : Enter_request([name |-> "wallpaper", to_json |-> TRUE, wallpaper_id |-> id], Get_(_format_url(self, <<S("w"), S(id)>>)))

is_wallpaper_exists == \E id \in WallpaperIds : Enter_request([name |-> "is_wallpaper_exists", to_json |-> TRUE, wallpaper_id |-> id], Get_(_format_url(self, <<S("w"), S(id)>>)))

download_wallpaper == \E id \in {"abc123"}, fp \in FilePaths : Enter_request([name |-> "download_wallpaper", to_json |-> TRUE, wallpaper_id |-> id, file_path |-> fp], Get_(_format_url(self, <<S("w"), S(id)>>)))

tag == \E t \in {I(1), S("7")} : Enter_request([name |-> "tag", to_json |-> TRUE], Get_(_format_url(self, <<S("tag"), t>>)))

\* Variant of settings: no local guard.
settings_unguarded == Enter_request([name |-> "settings", to_json |-> TRUE], Get_(_format_url(self, <<S("settings")>>)))

settings == IF self.api_key = None THEN EndLocally([name |-> "settings", to_json |-> TRUE], Raise(ApiKeyError(Some("API key required to retrieve settings."), 401))) ELSE Enter_request([name |-> "settings", to_json |-> TRUE], Get_(_format_url(self, <<S("settings")>>)))

my_collections == IF self.api_key = None THEN EndLocally([name |-> "my_collections", to_json |-> TRUE], Raise(ApiKeyError(Some("API key required to retrieve collections."), 401))) ELSE Enter_request([name |-> "my_collections", to_json |-> TRUE], Get_(_format_url(self, <<S("collections")>>)))

user_collections == \E u \in {"bob"} : Enter_request([name |-> "user_collections", to_json |-> TRUE], Get_(_format_url(self, <<S("collections"), S(u)>>)))

collection_wallpapers == \E u \in {"bob"}, c \in {I(5)}, page \in {None, Some(0), Some(2)} : Enter_request([name |-> "collection_wallpapers", to_json |-> TRUE], Put(Get_(_format_url(self, <<S("collections"), S(u), c>>)), "params", IF page # None THEN Put(<<>>, "page", ToString(Get(page))) ELSE <<>>))

\* _request called directly, with or without JSON decoding and params.
_request == \E tj \in BOOLEAN, kw \in {Get_(<<"u">>), Put(Get_(<<"u">>), "params", Put(<<>>, "q", "x"))} : Enter_request([name |-> "_request", to_json |-> tj], kw)

\* _raw_request called directly.
_raw_request == \E u \in AssetUrls : /\ Ready /\ op' = [name |-> "_raw_request", url |-> u] /\ kwargs' = <<>> /\ attempt' = 0 /\ pc' = "raw" /\ log' = <<>> /\ tres' = None /\ rres' = None /\ result' = None /\ UNCHANGED <<self, fs>>

\* ---------- the loop of _request ----------

\* The log of a call: every HTTP call made (its arguments and what came
\* back) and every sleep, in order.
HttpEvent(fn, kw, o) == [kind |-> "http", fn |-> fn, kwargs |-> kw, got |-> o]

SleepEvent(fn, seconds) == [kind |-> "sleep", fn |-> fn, seconds |-> seconds]

\* Variant of After_request: every operation maps 404 as wallpaper does.
After_request_mapall(r) == /\ tres' = Some(r) /\ UNCHANGED <<self, op, rres, fs>> /\ LET w == wallpaper_result(op.wallpaper_id, r) IN CASE op.name = "wallpaper" -> result' = Some(w) /\ pc' = "done" /\ UNCHANGED attempt [] op.name = "is_wallpaper_exists" -> result' = Some(is_wallpaper_exists_result(w)) /\ pc' = "done" /\ UNCHANGED attempt [] op.name = "download_wallpaper" -> (IF w.kind = "return" THEN result' = None /\ pc' = "raw" /\ attempt' = 0 ELSE result' = Some(w) /\ pc' = "done" /\ UNCHANGED attempt) [] OTHER -> result' = Some(wallpaper_result("", r)) /\ pc' = "done" /\ UNCHANGED attempt

\* _request has ended with r: what the operation that called it does next.
After_request(r) == /\ tres' = Some(r) /\ UNCHANGED <<self, op, rres, fs>> /\ LET w == wallpaper_result(op.wallpaper_id, r) IN CASE op.name = "wallpaper" -> result' = Some(w) /\ pc' = "done" /\ UNCHANGED attempt [] op.name = "is_wallpaper_exists" -> result' = Some(is_wallpaper_exists_result(w)) /\ pc' = "done" /\ UNCHANGED attempt [] op.name = "download_wallpaper" -> (IF w.kind = "return" THEN result' = None /\ pc' = "raw" /\ attempt' = 0 ELSE result' = Some(w) /\ pc' = "done" /\ UNCHANGED attempt) [] OTHER -> result' = Some(r) /\ pc' = "done" /\ UNCHANGED attempt

\* One attempt: lines 252-307.
RequestAttempt == /\ pc = "request" /\ attempt < max_retries(self) /\ \E o \in RequestOutcomes : LET kw == prepare(kwargs, self) r == _request_attempt(attempt, max_retries(self), op.to_json, o) IN /\ kwargs' = kw /\ log' = Append(log, HttpEvent("request", kw, o)) /\ IF r.kind = "sleep" THEN pc' = "request_sleep" /\ UNCHANGED <<self, op, attempt, tres, rres, result, fs>> ELSE After_request(r)

\* Variant of RequestSleep: the delay grows with the attempt number.
RequestSleep_backoff == /\ pc = "request_sleep" /\ log' = Append(log, SleepEvent("request", delay(self) * (attempt + 1))) /\ attempt' = attempt + 1 /\ pc' = "request" /\ UNCHANGED <<self, op, kwargs, tres, rres, result, fs>>

\* Variant of RequestSleep: the sleep never returns.
RequestSleep_forever == /\ pc = "request_sleep" /\ UNCHANGED vars

\* time.sleep(delay); continue.
RequestSleep == /\ pc = "request_sleep" /\ log' = Append(log, SleepEvent("request", delay(self))) /\ attempt' = attempt + 1 /\ pc' = "request" /\ UNCHANGED <<self, op, kwargs, tres, rres, result, fs>>

\* The loop ran out of attempts: line 310.
RequestExhausted == /\ pc = "request" /\ ~(attempt < max_retries(self)) /\ UNCHANGED <<kwargs, log>> /\ After_request(Raise(UnhandledException("Request failed after all retry attempts.", None)))

\* ---------- download_wallpaper after the stream is open ----------

\* Lines 560-567: the filesystem after the stream is written to file_path.
SaveTo(files, file_path, chunks) == LET save_path == abspath(file_path) IN [dirs |-> makedirs(files.dirs, dirname(save_path)), files |-> Put(files.files, save_path, WriteChunks(<<>>, chunks))]

\* Lines 560-569: what download_wallpaper returns.
Downloaded(file_path, chunks) == IF file_path # None /\ Get(file_path) # <<>> THEN Return(abspath(Get(file_path))) ELSE Return(JoinBytes(chunks))

\* ---------- the loop of _raw_request ----------

\* The url argument of _raw_request.
RawUrl == IF op.name = "download_wallpaper" THEN Get(tres).value.data.path ELSE op.url

\* Variant of After_raw_request: the destination directory is made before
\* the outcome of the raw request is looked at.
After_raw_request_eager(r) ==
  /\ rres' = Some(r)
  /\ pc' = "done"
  /\ UNCHANGED <<self, op, kwargs, tres, attempt>>
  /\ IF op.name = "download_wallpaper" /\ r.kind = "return"
     THEN /\ result' = Some(Downloaded(op.file_path, r.value.chunks))
          /\ fs' = IF op.file_path # None /\ Get(op.file_path) # <<>> THEN SaveTo(fs, Get(op.file_path), r.value.chunks) ELSE fs
     ELSE /\ result' = Some(r)
          /\ fs' = IF op.name = "download_wallpaper" /\ op.file_path # None /\ Get(op.file_path) # <<>> THEN [fs EXCEPT !.dirs = makedirs(fs.dirs, dirname(abspath(Get(op.file_path))))] ELSE fs

\* _raw_request has ended with r: download_wallpaper goes on to save or
\* return the stream (lines 560-569), a direct caller gets r.
After_raw_request(r) ==
  /\ rres' = Some(r)
  /\ pc' = "done"
  /\ UNCHANGED <<self, op, kwargs, tres, attempt>>
  /\ IF op.name = "download_wallpaper" /\ r.kind = "return"
     THEN /\ result' = Some(Downloaded(op.file_path, r.value.chunks))
          /\ fs' = IF op.file_path # None /\ Get(op.file_path) # <<>> THEN SaveTo(fs, Get(op.file_path), r.value.chunks) ELSE fs
     ELSE /\ result' = Some(r)
          /\ fs' = fs

\* Variant of RawAttempt: the credential is sent as _request sends it.
RawAttempt_with_key == /\ pc = "raw" /\ attempt < max_retries(self) /\ \E o \in RawOutcomes : LET r == _raw_request_attempt(attempt, max_retries(self), o) IN /\ log' = Append(log, HttpEvent("get", (IF Truthy(self.api_key) THEN Put([url |-> RawUrl, stream |-> TRUE, timeout |-> self.timeout, verify |-> self.verify_connection, proxies |-> self.proxies], "params", [apikey |-> Get(self.api_key)]) ELSE [url |-> RawUrl, stream |-> TRUE, timeout |-> self.timeout, verify |-> self.verify_connection, proxies |-> self.proxies]), o)) /\ IF r.kind = "sleep" THEN pc' = "raw_sleep" /\ UNCHANGED <<self, op, kwargs, attempt, tres, rres, result, fs>> ELSE After_raw_request(r)

\* One attempt: lines 335-359.
RawAttempt == /\ pc = "raw" /\ attempt < max_retries(self) /\ \E o \in RawOutcomes : LET r == _raw_request_attempt(attempt, max_retries(self), o) IN /\ log' = Append(log, HttpEvent("get", [url |-> RawUrl, stream |-> TRUE, timeout |-> self.timeout, verify |-> self.verify_connection, proxies |-> self.proxies], o)) /\ IF r.kind = "sleep" THEN pc' = "raw_sleep" /\ UNCHANGED <<self, op, kwargs, attempt, tres, rres, result, fs>> ELSE After_raw_request(r)

\* Variant of RawSleep: the sleep uses up one attempt of the configured policy.
RawSleep_consume == /\ pc = "raw_sleep" /\ log' = Append(log, SleepEvent("get", delay(self))) /\ attempt' = attempt + 1 /\ pc' = "raw" /\ self' = [self EXCEPT !.requestslimit_timeout = Some(<<Get(@)[1] - 1, Get(@)[2]>>)] /\ UNCHANGED <<op, kwargs, tres, rres, result, fs>>

\* time.sleep(delay) of line 348 or 357; continue.
RawSleep == /\ pc = "raw_sleep" /\ log' = Append(log, SleepEvent("get", delay(self))) /\ attempt' = attempt + 1 /\ pc' = "raw" /\ UNCHANGED <<self, op, kwargs, tres, rres, result, fs>>

\* The loop ran out of attempts: line 362.
RawExhausted == /\ pc = "raw" /\ ~(attempt < max_retries(self)) /\ UNCHANGED log /\ After_raw_request(Raise(UnhandledException("Failed to download after multiple attempts.", None)))

Next == \/ search \/ wallpaper \/ is_wallpaper_exists \/ download_wallpaper \/ tag \/ settings \/ my_collections \/ user_collections \/ collection_wallpapers \/ _request \/ _raw_request \/ RequestAttempt \/ RequestSleep \/ RequestExhausted \/ RawAttempt \/ RawSleep \/ RawExhausted

Spec == Init /\ [][Next]_vars

\* The call in progress takes its next step: the client is single-threaded
\* and blocking, and each requests call and each time.sleep returns.
Step == RequestAttempt \/ RequestSleep \/ RequestExhausted \/ RawAttempt \/ RawSleep \/ RawExhausted

FairSpec == Spec /\ WF_vars(Step)

TypeOK == pc \in {"idle", "request", "request_sleep", "raw", "raw_sleep", "done"}

\* ---------- reading the log ----------

\* The two transport calls, named by the requests function each one uses:
\* "request" is the loop of _request, "get" the loop of _raw_request.
Transports == {"request", "get"}

Sub(fn) == SelectSeq(log, LAMBDA e : e.fn = fn)

Https(fn) == SelectSeq(log, LAMBDA e : e.fn = fn /\ e.kind = "http")

NRequests(fn) == Len(Https(fn))

NSleeps(fn) == Len(SelectSeq(log, LAMBDA e : e.fn = fn /\ e.kind = "sleep"))

\* Attempt index of the HTTP call at position p of the log.
AttemptAt(p) == Len(SelectSeq(SubSeq(log, 1, p - 1), LAMBDA e : e.fn = log[p].fn /\ e.kind = "http"))

LoopPc(fn) == IF fn = "request" THEN "request" ELSE "raw"

SleepPc(fn) == IF fn = "request" THEN "request_sleep" ELSE "raw_sleep"

\* The transport call has been entered / has ended, and how.
Entered(fn) == IF fn = "request" THEN pc \in {"request", "request_sleep"} \/ tres # None ELSE pc \in {"raw", "raw_sleep"} \/ rres # None

Ended(fn) == IF fn = "request" THEN tres # None ELSE rres # None

Outcome(fn) == IF fn = "request" THEN Get(tres) ELSE Get(rres)

GotStatus(e, s) == e.got.kind = "resp" /\ e.got.status_code = s

GotFailure(e) == e.got.kind = "exc"

\* The configured retry budget and delay: (1, 0) when no policy is set.
Budget == IF self.requestslimit_timeout = None THEN 1 ELSE Get(self.requestslimit_timeout)[1]

ConfiguredDelay == IF self.requestslimit_timeout = None THEN 0 ELSE Get(self.requestslimit_timeout)[2]

AllOf(h, P(_)) == h # <<>> /\ \A i \in 1..Len(h) : P(h[i])

Is429(e) == GotStatus(e, 429)

\* ---------- claims ----------

\* C1: with a budget of at least one attempt, a transport call (_request or
\* _raw_request) whose attempts all receive 429 is still running until it
\* has issued exactly Budget requests, and then has failed with
\* RequestsLimitError; a 429 on an attempt that is not the last never ends
\* the call.
C1_RateLimitExhaustion ==
  \A fn \in Transports :
    LET h == Https(fn) IN
      /\ (Budget >= 1 /\ AllOf(h, Is429)) =>
            /\ Len(h) <= Budget
            /\ Ended(fn) <=> (Len(h) = Budget)
            /\ Ended(fn) => (Outcome(fn) = Raise(RequestsLimitError(429)) /\ pc = "done")
      /\ (h # <<>> /\ Is429(h[Len(h)]) /\ Len(h) < Budget) => ~Ended(fn)

\* C1 witness: a structured request with a budget of two or more has used
\* all of it on 429s and failed with RequestsLimitError.
C1_Witness ==
  /\ Budget >= 2
  /\ AllOf(Https("request"), Is429)
  /\ NRequests("request") = Budget
  /\ tres = Some(Raise(RequestsLimitError(429)))

\* C2: an attempt of _request that receives 401 is the last thing the call
\* does: nothing follows it in the log (no request, no sleep) and the call
\* has ended with ApiKeyError.
C2_UnauthorizedIsTerminal ==
  \A p \in 1..Len(log) :
    (log[p].kind = "http" /\ log[p].fn = "request" /\ GotStatus(log[p], 401)) =>
      (p = Len(log) /\ pc = "done" /\ tres = Some(Raise(ApiKeyError(None, 401))))

\* C2 witness: a 401 on the second attempt, after a 429 and a sleep, with
\* budget left.
C2_Witness ==
  /\ Len(log) = 3
  /\ log[1].kind = "http" /\ Is429(log[1])
  /\ log[3].fn = "request" /\ GotStatus(log[3], 401)
  /\ attempt + 1 < Budget
  /\ pc = "done"

\* C3: in both loops a transport failure on an attempt that is not the last
\* is followed by a sleep and then another attempt; on the last attempt it
\* ends the call with UnhandledException without a status code; a call whose
\* attempts all fail at transport level ends after exactly Budget requests.
C3_TransportFailure ==
  \A fn \in Transports :
    /\ \A p \in 1..Len(log) :
         (log[p].kind = "http" /\ log[p].fn = fn /\ GotFailure(log[p])) =>
           IF AttemptAt(p) = Budget - 1
           THEN /\ p = Len(log)
                /\ pc = "done"
                /\ Ended(fn)
                /\ Outcome(fn) = Raise(UnhandledException("Request failed", None))
           ELSE /\ AttemptAt(p) < Budget - 1
                /\ (p = Len(log)) => (pc = SleepPc(fn) /\ ~Ended(fn))
                /\ (p < Len(log)) => (log[p + 1].kind = "sleep" /\ log[p + 1].fn = fn)
                /\ (p + 1 = Len(log)) => (pc = LoopPc(fn) /\ attempt < Budget /\ ~Ended(fn))
                /\ (p + 1 < Len(log)) => (log[p + 2].kind = "http" /\ log[p + 2].fn = fn)
    /\ (AllOf(Https(fn), GotFailure) /\ Ended(fn)) => (NRequests(fn) = Budget)

\* C3 witness: a raw request with a budget of two or more has failed at
\* transport level on every attempt and ended with UnhandledException.
C3_Witness ==
  /\ Budget >= 2
  /\ AllOf(Https("get"), GotFailure)
  /\ NRequests("get") = Budget
  /\ rres = Some(Raise(UnhandledException("Request failed", None)))

\* C4 as stated: whenever a transport call has ended, it slept one time
\* fewer than it issued requests.
C4_Original == \A fn \in Transports : Ended(fn) => (NSleeps(fn) = NRequests(fn) - 1)

\* C4 (amended): every sleep of a transport call uses the configured delay
\* and is immediately followed by another HTTP attempt of that call (or, if
\* it is the latest event, the loop is about to make one); a call that has
\* ended has not slept after its last attempt; a call that issued at least
\* one request slept exactly one time fewer, and a call that issued none
\* (a budget below one) did not sleep at all.
C4_SleepOnlyBetweenAttempts ==
  \A fn \in Transports :
    LET s == Sub(fn) IN
      /\ \A p \in 1..Len(s) :
           (s[p].kind = "sleep") =>
             /\ s[p].seconds = ConfiguredDelay
             /\ p > 1 /\ s[p - 1].kind = "http"
             /\ (p < Len(s)) => (s[p + 1].kind = "http")
             /\ (p = Len(s)) => (pc = LoopPc(fn) /\ attempt < Budget /\ ~Ended(fn))
      /\ Ended(fn) => (s = <<>> \/ s[Len(s)].kind = "http")
      /\ (Ended(fn) /\ NRequests(fn) >= 1) => (NSleeps(fn) = NRequests(fn) - 1)
      /\ (NRequests(fn) = 0) => (NSleeps(fn) = 0)

\* C4 witness: a structured request that ended after three requests and
\* two sleeps.
C4_Witness == tres # None /\ NRequests("request") = 3 /\ NSleeps("request") = 2

\* C5 as stated: a call never issues more than the configured number of
\* attempts; with no policy or a budget of one it issues exactly one request
\* and never sleeps.
C5_Original ==
  \A fn \in Transports :
    Entered(fn) =>
      /\ NRequests(fn) <= Budget
      /\ (Budget = 1) => (NSleeps(fn) = 0 /\ (Ended(fn) <=> NRequests(fn) = 1))

\* C5 (amended): a call never issues more than the configured number of
\* attempts when that number is at least zero, and issues none when it is
\* negative; with no policy or a budget of one it issues exactly one
\* request and never sleeps, so its first outcome is terminal.
C5_AttemptBound ==
  \A fn \in Transports :
    Entered(fn) =>
      /\ NRequests(fn) <= (IF Budget >= 0 THEN Budget ELSE 0)
      /\ (Budget = 1) => (NSleeps(fn) = 0 /\ (Ended(fn) <=> NRequests(fn) = 1))

\* C5 witness: a client built without a retry policy whose single request
\* received 429 and ended the call.
C5_Witness ==
  /\ self.requestslimit_timeout = None
  /\ log # <<>> /\ Is429(log[Len(log)])
  /\ NRequests("request") = 1
  /\ tres = Some(Raise(RequestsLimitError(429)))

\* C6: an attempt of _request that receives a status other than 200, 401
\* and 429 (404 included) is the last thing the call does, and the call has
\* ended with UnhandledException carrying that status.
C6_OtherStatusIsTerminal ==
  \A p \in 1..Len(log) :
    (log[p].kind = "http" /\ log[p].fn = "request" /\ log[p].got.kind = "resp" /\ log[p].got.status_code \notin {200, 401, 429}) =>
      /\ p = Len(log)
      /\ pc = "done"
      /\ tres # None /\ IsRaise(Get(tres), "UnhandledException")
      /\ Get(tres).exc.status_code = Some(log[p].got.status_code)

\* C6 witness: a 500 on the second attempt, with budget left.
C6_Witness ==
  /\ Len(log) = 3
  /\ log[3].fn = "request" /\ GotStatus(log[3], 500)
  /\ attempt + 1 < Budget
  /\ pc = "done"

\* The failure of the structured request is the 404 UnhandledException.
NotFound(r) == IsRaise(r, "UnhandledException") /\ r.exc.status_code = Some(404)

\* C7: when wallpaper(id) has ended, it raised NoWallpaperError exactly when
\* its structured request failed with UnhandledException of status 404, and
\* then the error carries the id it was called with; every other failure of
\* the structured request is the failure of wallpaper, unchanged.
C7_WallpaperNotFound ==
  (op.name = "wallpaper" /\ pc = "done") =>
    LET r == Get(tres) res == Get(result) IN
      /\ IsRaise(res, "NoWallpaperError") <=> NotFound(r)
      /\ NotFound(r) => (res = Raise(NoWallpaperError(op.wallpaper_id)) /\ res.exc.wallpaper_id = op.wallpaper_id)
      /\ (r.kind = "raise" /\ ~NotFound(r)) => (res = r)

\* C7 witness: wallpaper("zzz999") has ended with NoWallpaperError for
\* "zzz999" after a 404.
C7_Witness ==
  /\ op.name = "wallpaper" /\ op.wallpaper_id = "zzz999" /\ pc = "done"
  /\ log # <<>> /\ GotStatus(log[Len(log)], 404)
  /\ IsRaise(Get(result), "NoWallpaperError") /\ Get(result).exc.wallpaper_id = "zzz999"

\* C8: when is_wallpaper_exists(id) has ended, it returned True if the
\* lookup succeeded, returned False exactly when the lookup met a 404, and
\* otherwise raised the failure of the lookup (rate limit, 401, other
\* status, transport failure, decode error) unchanged.
C8_ExistsOnlySwallowsNotFound ==
  (op.name = "is_wallpaper_exists" /\ pc = "done") =>
    LET r == Get(tres) res == Get(result) IN
      /\ (r.kind = "return") => (res = Return(TRUE))
      /\ (res = Return(FALSE)) <=> NotFound(r)
      /\ (r.kind = "raise" /\ ~NotFound(r)) => (res = r)
      /\ (res.kind = "return") => (res.value \in BOOLEAN)

\* C8 witness: is_wallpaper_exists has ended by raising the decode error of
\* its lookup.
C8_Witness ==
  /\ op.name = "is_wallpaper_exists" /\ pc = "done"
  /\ IsRaise(Get(result), "UnhandledException") /\ Get(result).exc.status_code = Some(200)

\* C9: settings() and my_collections() on a client without a credential
\* have ended with ApiKeyError, and no HTTP request and no sleep was made.
C9_CredentialGuard ==
  (op.name \in {"settings", "my_collections"} /\ self.api_key = None) =>
    /\ pc = "done"
    /\ log = <<>>
    /\ tres = None
    /\ result # None /\ IsRaise(Get(result), "ApiKeyError")

\* C9 witness: my_collections() was called on a client without a credential.
C9_Witness == op.name = "my_collections" /\ self.api_key = None /\ pc = "done"

\* The params of a call of requests.request, {} when it has none.
ParamsOf(kw) == IF "params" \in DOMAIN kw THEN kw.params ELSE <<>>

\* An attempt carries the caller's own parameters, and the credential k
\* under "apikey".
CarriesKey(e, k) == LET sent == ParamsOf(e.kwargs) own == ParamsOf(op.kwargs) IN /\ DOMAIN sent = DOMAIN own \cup {"apikey"} /\ sent["apikey"] = k /\ \A x \in DOMAIN own : sent[x] = own[x]

\* An attempt carries the caller's own parameters and nothing else.
CarriesNoKey(e) == ParamsOf(e.kwargs) = ParamsOf(op.kwargs) /\ "apikey" \notin DOMAIN ParamsOf(e.kwargs)

C11_RawStatusHandling ==
  /\ \A p \in 1..Len(log) :
       (log[p].kind = "http" /\ log[p].fn = "get" /\ log[p].got.kind = "resp") =>
         LET st == log[p].got.status_code IN
           IF st = 200
           THEN p = Len(log) /\ pc = "done" /\ rres = Some(Return(log[p].got))
           ELSE IF st = 429
           THEN IF AttemptAt(p) = Budget - 1
                THEN p = Len(log) /\ pc = "done" /\ rres = Some(Raise(RequestsLimitError(429)))
                ELSE /\ AttemptAt(p) < Budget - 1
                     /\ (p = Len(log)) => (pc = "raw_sleep" /\ rres = None)
                     /\ (p < Len(log)) => (log[p + 1].kind = "sleep" /\ log[p + 1].fn = "get")
           ELSE /\ p = Len(log) /\ pc = "done"
                /\ rres # None /\ IsRaise(Get(rres), "UnhandledException")
                /\ Get(rres).exc.status_code = Some(st)
  /\ (rres # None /\ Get(rres).kind = "raise") => (Get(rres).exc.type \in {"RequestsLimitError", "UnhandledException"})

\* C11 witness: a raw request met 401 on its second attempt, with budget
\* left, and ended with UnhandledException of status 401.
C11_Witness ==
  /\ op.name = "_raw_request" /\ Len(log) = 3
  /\ GotStatus(log[3], 401)
  /\ attempt + 1 < Budget
  /\ rres # None /\ IsRaise(Get(rres), "UnhandledException") /\ Get(rres).exc.status_code = Some(401)

\* The bytes of a chunk stream, read in order.
RECURSIVE Flatten(_)
Flatten(chunks) == IF chunks = <<>> THEN <<>> ELSE Flatten(SubSeq(chunks, 1, Len(chunks) - 1)) \o chunks[Len(chunks)]

\* download_wallpaper was given a destination path.
HasDestination == op.file_path # None /\ Get(op.file_path) # <<>>

\* C12: once the asset stream is open, download_wallpaper with a
\* destination path leaves at the absolute form of that path a file holding
\* exactly the chunks of the stream in order (empty chunks adding nothing)
\* and returns that absolute path; with no destination it returns the same
\* byte sequence, so both modes yield the same content for the same stream.
C12_DownloadContent ==
  (op.name = "download_wallpaper" /\ pc = "done" /\ rres # None /\ Get(rres).kind = "return") =>
    LET content == Flatten(Get(rres).value.chunks) IN
      IF HasDestination
      THEN LET given == Get(op.file_path)
               path == IF given[1] = "/" THEN given ELSE (<<"/", "cwd", "/">> \o given) IN
             /\ result = Some(Return(path))
             /\ path \in DOMAIN fs.files
             /\ fs.files[path] = content
      ELSE result = Some(Return(content))

\* C12 witness: a stream of two different non-empty chunks was saved to a
\* relative destination path.
C12_Witness ==
  /\ op.name = "download_wallpaper" /\ pc = "done" /\ HasDestination
  /\ Get(op.file_path)[1] # "/"
  /\ rres # None /\ Get(rres).kind = "return"
  /\ Get(rres).value.chunks = << <<1>>, <<2>> >>
  /\ result # None /\ Get(result).kind = "return"

\* C13: when request k (counting from 0) of a structured request is the
\* first to receive 200, every earlier one received 429 or failed in
\* transport, k is below the attempt budget, exactly k + 1 requests were
\* issued and none follows the 200; the call then returns the parsed body
\* of that very response unmodified (the response itself when no parsing
\* was asked for).
C13_SuccessAfterRetries ==
  LET h == Https("request") IN
    \A k \in 1..Len(h) :
      GotStatus(h[k], 200) =>
        /\ k = Len(h)
        /\ NRequests("request") = k
        /\ k - 1 < Budget
        /\ \A j \in 1..(k - 1) : Is429(h[j]) \/ GotFailure(h[j])
        /\ tres # None
        /\ (op.to_json /\ h[k].got.json # None) => (tres = Some(Return(Get(h[k].got.json))))
        /\ (~op.to_json) => (tres = Some(Return(h[k].got)))

\* C13 witness: after a 429 and a transport failure the third request
\* received 200 and the call returned its parsed body.
C13_Witness ==
  LET h == Https("request") IN
    /\ Len(h) = 3
    /\ Is429(h[1]) /\ GotFailure(h[2]) /\ GotStatus(h[3], 200)
    /\ op.to_json /\ h[3].got.json # None
    /\ tres = Some(Return(Get(h[3].got.json)))

\* C14: when parsing was asked for, a 200 response whose body cannot be
\* parsed ends the call at once with UnhandledException of status 200 and
\* the decode-error message; it is never retried, whatever budget is left.
C14_DecodeErrorIsTerminal ==
  \A p \in 1..Len(log) :
    (log[p].kind = "http" /\ log[p].fn = "request" /\ GotStatus(log[p], 200) /\ log[p].got.json = None /\ op.to_json) =>
      /\ p = Len(log)
      /\ pc = "done"
      /\ tres = Some(Raise(UnhandledException("JSON decode error", Some(200))))

\* C14 witness: the first request of a call with budget left received a 200
\* with an unparseable body and the call ended with the decode error.
C14_Witness ==
  /\ Len(log) = 1 /\ log[1].fn = "request" /\ op.to_json
  /\ GotStatus(log[1], 200) /\ log[1].got.json = None
  /\ Budget > 1
  /\ tres # None /\ IsRaise(Get(tres), "UnhandledException") /\ Get(tres).exc.status_code = Some(200)

\* The operations that hand the outcome of the structured request on as it is.
PassThroughOps == {"search", "tag", "settings", "my_collections", "user_collections", "collection_wallpapers"}

\* C15: for search, tag, settings, my_collections, user_collections and
\* collection_wallpapers, whatever the structured request ended with is what
\* the caller gets: a failure keeps its type and status, so a 404 arrives as
\* UnhandledException of status 404, and none of them ever raises
\* NoWallpaperError.
C15_FailuresPassThrough ==
  (op.name \in PassThroughOps /\ pc = "done") =>
    /\ result # None
    /\ (tres # None) => (result = tres)
    /\ ~IsRaise(Get(result), "NoWallpaperError")
    /\ (log # <<>> /\ GotStatus(log[Len(log)], 404)) => NotFound(Get(result))

\* C15 witness: a collection listing ended on a 404 and the caller got
\* UnhandledException of status 404.
C15_Witness ==
  /\ op.name = "collection_wallpapers" /\ pc = "done"
  /\ log # <<>> /\ GotStatus(log[Len(log)], 404)
  /\ result # None /\ NotFound(Get(result))

\* The filesystem before any call.
UntouchedFs == [dirs |-> {<<"/">>, <<"/", "cwd">>}, files |-> <<>>]

\* C16: download_wallpaper issues raw requests only after its metadata
\* lookup has returned, and changes the filesystem only after the raw
\* request has returned a 200 stream: when the lookup fails (NoWallpaperError
\* included) no raw request is issued, and when either request fails no
\* directory or file is created.  No other operation touches the filesystem.
C16_DownloadOrdering ==
  /\ (op.name # "download_wallpaper") => (fs = UntouchedFs)
  /\ (op.name = "download_wallpaper") =>
       /\ (NRequests("get") > 0 \/ pc \in {"raw", "raw_sleep"} \/ rres # None) =>
            (tres # None /\ Get(tres).kind = "return")
       /\ \A p \in 1..Len(log), q \in 1..Len(log) :
            (log[p].fn = "request" /\ log[q].fn = "get") => (p < q)
       /\ (tres # None /\ Get(tres).kind = "raise") =>
            (NRequests("get") = 0 /\ rres = None /\ pc = "done" /\ fs = UntouchedFs)
       /\ (rres # None /\ Get(rres).kind = "raise") => (fs = UntouchedFs)
       /\ (fs # UntouchedFs) =>
            /\ rres # None /\ Get(rres).kind = "return"
            /\ GotStatus(log[Len(log)], 200) /\ log[Len(log)].fn = "get"

\* C16 witness: a download to a destination path whose lookup succeeded and
\* whose raw request failed on 404 after a retry, leaving the filesystem as
\* it was.
C16_Witness ==
  /\ op.name = "download_wallpaper" /\ HasDestination /\ pc = "done"
  /\ tres # None /\ Get(tres).kind = "return"
  /\ NRequests("get") = 2 /\ GotStatus(log[Len(log)], 404)
  /\ rres # None /\ Get(rres).kind = "raise"
  /\ fs = UntouchedFs

\* C17: no step of any operation changes the client configuration: api_key,
\* base_url, verify_connection, timeout, requestslimit_timeout and proxies
\* keep the values they were constructed with.
C17_ConfigurationIsReadOnly == [][self' = self]_vars

\* C17 witness: a download has run to its end through retries of both the
\* structured and the raw request.
C17_Witness ==
  /\ op.name = "download_wallpaper" /\ pc = "done"
  /\ NSleeps("request") > 0 /\ NSleeps("get") > 0
  /\ self \in Configs

\* ---------- the helpers called on their own ----------

\* The members of Category and Purity (lines 42-55).
Categories == {"general", "anime", "people"}

Purities == {"sfw", "sketchy", "nsfw"}

\* The default values of the parameters of _category (381-383) and _purity (400-402).
_category_defaults == <<TRUE, TRUE, FALSE>>

_purity_defaults == <<TRUE, TRUE, FALSE>>

\* Positional arguments completed by the defaults of the parameters left out.
WithDefaults(args, defaults) == [i \in 1..Len(defaults) |-> IF i <= Len(args) THEN args[i] ELSE defaults[i]]

\* What a caller of search can pass as categories or purities.
Selections(members) == ({NoSel} \cup {One(x) : x \in members}) \cup {List(l) : l \in SeqsUpTo(members, MaxList)}

HelperBases == SeqsUpTo({"b", "/"}, MaxBase)

Segments == {S("w"), I(94)}

HelperConfig == [api_key |-> None, verify_connection |-> TRUE, base_url |-> <<"b", "/">>, timeout |-> <<2, 5>>, requestslimit_timeout |-> None, proxies |-> <<>>]

\* The calls of the helpers that are looked at.
HelperCalls == (({[name |-> "_category", flags |-> a] : a \in SeqsUpTo(BOOLEAN, Len(_category_defaults))} \cup {[name |-> "_purity", flags |-> a] : a \in SeqsUpTo(BOOLEAN, Len(_purity_defaults))}) \cup {[name |-> "search_params", filter |-> [NoFilter EXCEPT !.categories = c, !.purities = u]] : c \in Selections(Categories), u \in Selections(Purities)}) \cup {[name |-> "_format_url", args |-> a] : a \in SeqsUpTo(Segments, MaxSegs)}

\* A client and one call of a helper on it.
HelperInit == /\ op \in HelperCalls /\ self \in (IF op.name = "_format_url" THEN {[HelperConfig EXCEPT !.base_url = b] : b \in HelperBases} ELSE {HelperConfig}) /\ pc = "idle" /\ kwargs = <<>> /\ attempt = 0 /\ log = <<>> /\ tres = None /\ rres = None /\ result = None /\ fs = [dirs |-> {<<"/">>, Cwd}, files |-> <<>>]

\* The helper returns v.
HelperReturns(v) == /\ pc = "idle" /\ result' = Some(Return(v)) /\ pc' = "done" /\ UNCHANGED <<self, op, kwargs, attempt, log, tres, rres, fs>>

Call_category == /\ op.name = "_category" /\ LET a == WithDefaults(op.flags, _category_defaults) IN HelperReturns(_category(a[1], a[2], a[3]))

Call_purity == /\ op.name = "_purity" /\ LET a == WithDefaults(op.flags, _purity_defaults) IN HelperReturns(_purity(a[1], a[2], a[3]))

Call_search_params == /\ op.name = "search_params" /\ HelperReturns(search_params(op.filter))

Call_format_url == /\ op.name = "_format_url" /\ HelperReturns(_format_url(self, op.args))

HelperNext == Call_category \/ Call_purity \/ Call_search_params \/ Call_format_url

HelperSpec == HelperInit /\ [][HelperNext]_vars

\* ---------- claims about the helpers ----------

Bit(b) == IF b THEN "1" ELSE "0"

Triplets == {"000", "001", "010", "011", "100", "101", "110", "111"}

\* The value a helper has returned.
Returned == Get(result).value

HelperDone(name) == op.name = name /\ pc = "done" /\ result # None

\* The members a selection holds, whatever their order.
Selected(sel) == IF sel[1] = "list" THEN {sel[2][i] : i \in 1..Len(sel[2])} ELSE IF sel[1] = "one" THEN {sel[2]} ELSE {}

\* The triplet of a set of members over the vocabulary <<m1, m2, m3>>.
TripletOf(set, m1, m2, m3) == (Bit(m1 \in set) \o Bit(m2 \in set)) \o Bit(m3 \in set)

\* _category and _purity called with all three flags: a string of three
\* characters '0' or '1', the i-th being '1' exactly when the i-th flag is true.
EncodersArePositional ==
  \A name \in {"_category", "_purity"} :
    (HelperDone(name) /\ Len(op.flags) = 3) =>
      /\ Returned \in Triplets
      /\ Returned = (Bit(op.flags[1]) \o Bit(op.flags[2])) \o Bit(op.flags[3])

\* search sends, for the selection sel, the triplet of its members under key.
SendsTriplet(sel, key, m1, m2, m3) == key \in DOMAIN Returned /\ Returned[key] = TripletOf(Selected(sel), m1, m2, m3)

\* C18 as stated: the encoders are positional, and search called with any
\* list of categories (of purities) sends the triplet of the members of the
\* list.
C18_Original ==
  /\ EncodersArePositional
  /\ HelperDone("search_params") =>
       /\ (op.filter.categories[1] = "list") => SendsTriplet(op.filter.categories, "categories", "general", "anime", "people")
       /\ (op.filter.purities[1] = "list") => SendsTriplet(op.filter.purities, "purity", "sfw", "sketchy", "nsfw")

\* C18: for all boolean triplets _category and _purity return the string of
\* three characters '0' or '1' whose i-th character is '1' exactly when the
\* i-th flag is true; and search called with a non-empty list of categories
\* (of purities) sends the triplet whose i-th position is '1' exactly when
\* the i-th member of the vocabulary is in the list, whatever the order of
\* the list.
C18_TripletEncoding ==
  /\ EncodersArePositional
  /\ HelperDone("search_params") =>
       /\ (op.filter.categories[1] = "list" /\ op.filter.categories[2] # <<>>) => SendsTriplet(op.filter.categories, "categories", "general", "anime", "people")
       /\ (op.filter.purities[1] = "list" /\ op.filter.purities[2] # <<>>) => SendsTriplet(op.filter.purities, "purity", "sfw", "sketchy", "nsfw")

\* C18 witness: search was given the categories people, general in that
\* order and sends "101".
C18_Witness ==
  /\ HelperDone("search_params")
  /\ op.filter.categories = List(<<"people", "general">>)
  /\ "categories" \in DOMAIN Returned /\ Returned["categories"] = "101"

\* The caller of search has made no selection: None or an empty list.
NoSelection(sel) == sel[1] = "none" \/ (sel[1] = "list" /\ sel[2] = <<>>)

\* C19 as stated: when search is passed no categories (no purities), the
\* value sent is the default "110".
C19_Original ==
  HelperDone("search_params") =>
    /\ (op.filter.categories[1] = "none") => ("categories" \in DOMAIN Returned /\ Returned["categories"] = "110")
    /\ (op.filter.purities[1] = "none") => ("purity" \in DOMAIN Returned /\ Returned["purity"] = "110")

\* C19: when search is passed no categories (no purities), or an empty
\* list, no categories (no purity) parameter is sent at all; "110" is what
\* _category and _purity return for the flags a caller leaves out, general
\* and anime (sfw and sketchy) being on and people (nsfw) off by default.
C19_NoSelectionSendsNothing ==
  /\ HelperDone("search_params") =>
       /\ NoSelection(op.filter.categories) <=> ("categories" \notin DOMAIN Returned)
       /\ NoSelection(op.filter.purities) <=> ("purity" \notin DOMAIN Returned)
  /\ \A name \in {"_category", "_purity"} :
       HelperDone(name) =>
         /\ (op.flags = <<>>) => (Returned = "110")
         /\ (Len(op.flags) < 3) => (Returned = (Bit(IF Len(op.flags) >= 1 THEN op.flags[1] ELSE TRUE) \o Bit(IF Len(op.flags) >= 2 THEN op.flags[2] ELSE TRUE)) \o "0")

\* C19 witness: search was passed neither categories nor purities and
\* sends no parameter.
C19_Witness ==
  /\ HelperDone("search_params")
  /\ op.filter.categories = NoSel /\ op.filter.purities = NoSel
  /\ DOMAIN Returned = {}

\* The base without its trailing slashes.
Stripped(b) == LET keep == {i \in 1..Len(b) : b[i] # "/"} IN SubSeq(b, 1, IF keep = {} THEN 0 ELSE CHOOSE i \in keep : \A j \in keep : j <= i)

\* The text of a path segment.
Text(seg) == IF seg = I(94) THEN "94" ELSE seg[2]

\* Every segment, stringified, behind one '/'.
Slashed(segs) == [i \in 1..(2 * Len(segs)) |-> IF i % 2 = 1 THEN "/" ELSE Text(segs[i \div 2])]

\* C20 as stated: for every base and every sequence of segments _format_url
\* returns the base without its trailing slashes followed by the stringified
\* segments, each behind exactly one '/'.
C20_Original ==
  HelperDone("_format_url") => (Returned = Stripped(self.base_url) \o Slashed(op.args))

\* C20: for every base, with any number of trailing slashes, and every
\* non-empty sequence of segments _format_url returns the base without its
\* trailing slashes followed by the stringified segments, each behind
\* exactly one '/', so that exactly one '/' stands between base and first
\* segment; with no segment at all it returns the stripped base followed by
\* one '/'.
C20_FormatUrl ==
  HelperDone("_format_url") =>
    LET base == Stripped(self.base_url) n == Len(base) IN
      /\ (n > 0) => (base[n] # "/")
      /\ (op.args # <<>>) =>
           /\ Returned = base \o Slashed(op.args)
           /\ Returned[n + 1] = "/" /\ Returned[n + 2] # "/"
      /\ (op.args = <<>>) => (Returned = base \o <<"/">>)

\* C20 witness: a base ending in two slashes and two segments, one of them
\* a number.
C20_Witness ==
  /\ HelperDone("_format_url")
  /\ self.base_url = <<"b", "/", "/">>
  /\ op.args = <<S("w"), I(94)>>
  /\ Returned = <<"b", "/", "w", "/", "94">>

\* ---------- claims about the two loops together ----------

\* The class of what an attempt received.
Class(e) == IF e.got.kind = "exc" THEN "fail" ELSE IF e.got.status_code = 200 THEN "ok" ELSE IF e.got.status_code = 429 THEN "limit" ELSE "other"

Retryable(e) == Class(e) \in {"limit", "fail"}

\* The class of a terminal outcome.
OutcomeClass(r) == IF r.kind = "return" THEN "success" ELSE r.exc.type

\* The terminal class of one attempt machine for both loops, from the
\* class of the last attempt alone.
MachineClass(c) == IF c = "ok" THEN "success" ELSE IF c = "limit" THEN "RequestsLimitError" ELSE "UnhandledException"

\* One attempt machine for both loops: over the attempts seen so far every
\* attempt but a terminal one is retryable and below the budget, a sleep
\* follows each attempt that is not the last, and the call has ended exactly
\* when the last attempt is not retryable or is the last one of the budget,
\* or when the budget allows no attempt at all.
SameAttemptMachine(fn) ==
  LET h == Https(fn) n == Len(h) IN
    /\ \A j \in 1..(n - 1) : Retryable(h[j])
    /\ n <= (IF Budget < 0 THEN 0 ELSE Budget)
    /\ Ended(fn) =>
         /\ NSleeps(fn) = (IF n = 0 THEN 0 ELSE n - 1)
         /\ (n = 0) => (Budget < 1)
         /\ (n > 0) => (~Retryable(h[n]) \/ n = Budget)
    /\ (Entered(fn) /\ ~Ended(fn)) =>
         /\ NSleeps(fn) \in {n - 1, n}
         /\ (n > 0) => (Retryable(h[n]) /\ n < Budget)

\* The two places where _request classifies an attempt as _raw_request does not.
OnlyStructured(fn, e) == fn = "request" /\ ((GotStatus(e, 401)) \/ (GotStatus(e, 200) /\ op.to_json /\ e.got.json = None))

\* C21 as stated: _request and _raw_request are one attempt machine, in the
\* number of requests, the number of sleeps, the attempt at which they stop
\* and the class of the terminal outcome (success, RequestsLimitError or
\* UnhandledException).
C21_Original ==
  \A fn \in Transports :
    /\ SameAttemptMachine(fn)
    /\ Ended(fn) =>
         LET h == Https(fn) IN
           OutcomeClass(Outcome(fn)) = (IF h = <<>> THEN "UnhandledException" ELSE MachineClass(Class(h[Len(h)])))

\* C21: for the same budget and the same sequence of attempt outcomes
\* _request and _raw_request issue the same number of requests, sleep the
\* same number of times and stop at the same attempt; they end in the same
\* class of outcome (success, RequestsLimitError or UnhandledException)
\* except that _request ends a 401 with ApiKeyError and, when it parses the
\* body, a 200 with an unparseable body with UnhandledException.
C21_LoopsAgree ==
  \A fn \in Transports :
    /\ SameAttemptMachine(fn)
    /\ Ended(fn) =>
         LET h == Https(fn) IN
           OutcomeClass(Outcome(fn)) =
             (IF h = <<>> THEN "UnhandledException"
              ELSE IF OnlyStructured(fn, h[Len(h)])
              THEN (IF GotStatus(h[Len(h)], 401) THEN "ApiKeyError" ELSE "UnhandledException")
              ELSE MachineClass(Class(h[Len(h)])))

\* C21 witness: in one download both loops met a transport failure, then a
\* 429, then a 200: each issued three requests, slept twice and succeeded.
C21_Witness ==
  LET a == Https("request") b == Https("get") IN
    /\ op.name = "download_wallpaper" /\ pc = "done"
    /\ Len(a) = 3 /\ Len(b) = 3
    /\ \A j \in 1..3 : Class(a[j]) = Class(b[j])
    /\ Class(a[1]) = "fail" /\ Class(a[2]) = "limit" /\ Class(a[3]) = "ok"
    /\ NSleeps("request") = 2 /\ NSleeps("get") = 2
    /\ OutcomeClass(Get(tres)) = "success" /\ OutcomeClass(Get(rres)) = "success"

\* The HTTP requests of both kinds issued so far.
TotalRequests == NRequests("request") + NRequests("get")

\* Every call that has been made ends, with a value or an error.
EveryCallEnds == (pc # "idle") ~> (pc = "done" /\ result # None)

\* C22 as stated: every call ends after finitely many steps, and
\* download_wallpaper issues at most 2 * maxAttempts HTTP requests.
C22_Original ==
  /\ EveryCallEnds
  /\ []((op.name = "download_wallpaper") => (TotalRequests <= 2 * Budget))

\* C22: every call of _request and _raw_request, and so of every resource
\* operation, ends with a returned value or a raised error after finitely
\* many steps, for every budget and every sequence of attempt outcomes,
\* given that each HTTP call and each sleep returns; download_wallpaper
\* issues at most 2 * max(maxAttempts, 0) HTTP requests in all, and none
\* when maxAttempts is below 1.
C22_Termination ==
  /\ EveryCallEnds
  /\ []((op.name = "download_wallpaper") => (TotalRequests <= 2 * (IF Budget < 0 THEN 0 ELSE Budget)))

\* C22 witness: a download that used every attempt of both loops of a
\* budget of at least two has ended.
C22_Witness ==
  /\ op.name = "download_wallpaper" /\ pc = "done" /\ result # None
  /\ Budget >= 2
  /\ NRequests("request") = Budget /\ NRequests("get") = Budget

\* C23: when a transport call has used its whole budget on retryable
\* outcomes, the error depends on the last attempt alone: RequestsLimitError
\* of status 429 when it received 429, UnhandledException without status
\* when it failed in transport, whatever the earlier attempts were.
C23_LastAttemptDecides ==
  \A fn \in Transports :
    LET h == Https(fn) n == Len(h) IN
      (Ended(fn) /\ n > 0 /\ n = Budget /\ \A j \in 1..n : Retryable(h[j])) =>
        IF Class(h[n]) = "limit"
        THEN Outcome(fn) = Raise(RequestsLimitError(429))
        ELSE /\ IsRaise(Outcome(fn), "UnhandledException")
             /\ Outcome(fn).exc.status_code = None
             /\ Outcome(fn).exc.message = "Request failed"

\* C23 witness: a raw request of budget three failed twice in transport,
\* received 429 on its last attempt and raised RequestsLimitError.
C23_Witness ==
  LET h == Https("get") IN
    /\ Budget = 3 /\ Len(h) = 3 /\ rres # None
    /\ Class(h[1]) = "fail" /\ Class(h[2]) = "fail" /\ Class(h[3]) = "limit"
    /\ IsRaise(Get(rres), "RequestsLimitError")

\* The error raised behind the loop (lines 310 and 362).
IsFallback(r) == IsRaise(r, "UnhandledException") /\ r.exc.message \in {"Request failed after all retry attempts.", "Failed to download after multiple attempts."}

\* C24: a transport call ends in the fallback error raised behind the loop
\* exactly when the configured maxAttempts is below 1, and then it has
\* issued no HTTP request; with maxAttempts of 1 or more the call ends in a
\* return or an error raised inside an attempt.
C24_FallbackOnlyWithoutAttempts ==
  \A fn \in Transports :
    Ended(fn) =>
      /\ IsFallback(Outcome(fn)) <=> (Budget < 1)
      /\ IsFallback(Outcome(fn)) => (NRequests(fn) = 0 /\ NSleeps(fn) = 0)
      /\ (Budget >= 1) => (NRequests(fn) >= 1)

\* C24 witness: a structured request of budget zero ended in the fallback
\* error with an empty log.
C24_Witness ==
  /\ Budget = 0 /\ tres # None /\ IsFallback(Get(tres))
  /\ log = <<>> /\ pc = "done"

\* What requests.get is called with for the asset at url by a client of
\* the given timeout, verification flag and proxies: nothing in it comes
\* from api_key.
AssetCall(url, timeout, verify, proxies) == [url |-> url, stream |-> TRUE, timeout |-> timeout, verify |-> verify, proxies |-> proxies]

\* The asset url: the path of the metadata envelope in a download, the
\* argument of a direct call.
AssetUrl == IF op.name = "download_wallpaper" THEN Get(tres).value.data.path ELSE op.url

\* C25: every request issued by _raw_request, in a download too, is
\* determined by the asset url and by timeout, verify_connection and
\* proxies alone, so it is the same for clients that differ only in
\* api_key: it has no query parameters and the configured key occurs
\* nowhere in it.
C25_RawRequestCarriesNoCredential ==
  \A p \in 1..Len(log) :
    (log[p].kind = "http" /\ log[p].fn = "get") =>
      /\ log[p].kwargs = AssetCall(AssetUrl, self.timeout, self.verify_connection, self.proxies)
      /\ "params" \notin DOMAIN log[p].kwargs
      /\ (self.api_key # None) => (\A i \in 1..Len(log[p].kwargs.url) : log[p].kwargs.url[i] # Get(self.api_key))

\* C25 witness: a client with a non-empty key sent it with the metadata
\* lookup of a download and then issued the asset request without it.
C25_Witness ==
  /\ op.name = "download_wallpaper" /\ self.api_key = Some("KEY")
  /\ Len(log) >= 2
  /\ log[1].fn = "request" /\ CarriesKey(log[1], "KEY")
  /\ log[Len(log)].fn = "get" /\ log[Len(log)].kind = "http"
  /\ DOMAIN log[Len(log)].kwargs = {"url", "stream", "timeout", "verify", "proxies"}

\* C26 as stated: every HTTP request issued by settings or my_collections
\* carries the apikey parameter with the configured credential, whatever
\* the credential is: absent, empty or non-empty.
C26_GuardAndInjectionAgree ==
  \A p \in 1..Len(log) :
    (op.name \in {"settings", "my_collections"} /\ log[p].kind = "http") =>
      /\ self.api_key # None
      /\ "apikey" \in DOMAIN ParamsOf(log[p].kwargs)
      /\ ParamsOf(log[p].kwargs)["apikey"] = Get(self.api_key)
====
